---- MODULE Spec2Model ----
(***************************************************************************)
(* Model of psychopy/experiment/components/mouse/__init__.py               *)
(* (MouseComponent): the code emitter for the desktop (PsychoPy) and the   *)
(* browser (PsychoJS) targets, and the behaviour of the emitted desktop    *)
(* code when it is run frame by frame.                                     *)
(*                                                                         *)
(* An emitted line is a record                                             *)
(*   [ind  : indentation cursor of the buffer when the line was written,   *)
(*    off  : leading spaces inside the emitted text itself,                *)
(*    lang : "py" or "js",                                                 *)
(*    op   : the statement written,                                        *)
(*    chan : the data channel the statement is about (NoChan if none),     *)
(*    aux  : clock / loop name used by the statement ("" if none)]         *)
(***************************************************************************)
EXTENDS Integers, Sequences, FiniteSets, TLC

VARIABLES
    params,       \* self.params (the ParameterSet)
    ctx,          \* self.exp.flow._loopList (the loop context)
    buff,         \* the lines written to the IndentingBuffer
    indentLevel,  \* buff.indentLevel
    clockStr,     \* self.clockStr ("unset" until a per-frame emission sets it)
    failed,       \* an emission raised AttributeError
    lastCall,     \* history: the last emitter method called
    nCalls,       \* history: number of emitter calls so far
    rt            \* run-time state of the emitted desktop program

vars == <<params, ctx, buff, indentLevel, clockStr, failed, lastCall,
          nCalls, rt>>

----------------------------------------------------------------------------
(* Bounds *)
MaxCalls == 2
MaxFrames == 3

----------------------------------------------------------------------------
(* Text helpers *)

NAME == <<"n", "a", "m", "e">>
WordChars == {"n", "a", "m", "e", "t", "'"}

RECURSIVE FindAllFrom(_, _, _, _)
FindAllFrom(text, i, cur, acc) ==
    IF i > Len(text)
    THEN IF cur = <<>> THEN acc ELSE Append(acc, cur)
    ELSE IF text[i] \in WordChars
         THEN FindAllFrom(text, i + 1, Append(cur, text[i]), acc)
         ELSE FindAllFrom(text, i + 1, <<>>,
                          IF cur = <<>> THEN acc ELSE Append(acc, cur))

\* re.findall(r"[\w']+", text)
FindAll(text) == FindAllFrom(text, 1, <<>>, <<>>)

clickableParamsList(p) ==
    LET paramsList == FindAll(p.saveParamsClickable)
    IN  IF paramsList = <<>> THEN <<NAME>> ELSE paramsList

NoChan == [base |-> "", attr |-> <<>>]
Chan(b) == [base |-> b, attr |-> <<>>]
Clicked(a) == [base |-> "clicked", attr |-> a]

Py(off, op, chan, aux) ==
    [ind |-> 0, off |-> off, lang |-> "py", op |-> op, chan |-> chan, aux |-> aux]
Js(off, op, chan, aux) ==
    [ind |-> 0, off |-> off, lang |-> "js", op |-> op, chan |-> chan, aux |-> aux]

\* the truth value of a Param object, as in `if self.params[...]:`
ParamIsTrue(val) == val

\* bool(self.params['clickable'].val)
HasClickable(p) == Len(p.clickable) > 0

----------------------------------------------------------------------------
(* The IndentingBuffer: b = [lines, indentLevel] *)

\* the value of a one-element set: binds an argument to its value, so that it
\* is computed once however often it is used
The(S) == CHOOSE x \in S : TRUE

writeIndentedLines(b, ls) ==
    The({ [lines |-> bv.lines \o [i \in 1..Len(lv) |->
                                     [lv[i] EXCEPT !.ind = bv.indentLevel]],
           indentLevel |-> bv.indentLevel] : bv \in {b}, lv \in {ls} })

writeIndented(b, l) == writeIndentedLines(b, <<l>>)

\* text after an embedded newline of a writeIndented call gets no indent
writeRaw(b, l) == [b EXCEPT !.lines = Append(@, l)]

setIndentLevel(b, d) == [b EXCEPT !.indentLevel = @ + d]

----------------------------------------------------------------------------
(* Helpers of the base component, writeStartTestCode / writeStopTestCode and  *)
(* their JS variants: an `if` line for the activation / deactivation window, *)
(* and the cursor moved one level in.                                        *)

writeStartTestCode(b) ==
    LET b1 == writeIndented(b, Py(0, "if_start", NoChan, ""))
        b2 == setIndentLevel(b1, 1)
    IN  writeIndented(b2, Py(0, "tStart", NoChan, ""))

writeStopTestCode(b) ==
    setIndentLevel(writeIndented(b, Py(0, "if_stop", NoChan, "")), 1)

writeStartTestCodeJS(b) ==
    LET b1 == writeIndented(b, Js(0, "if_start", NoChan, ""))
        b2 == setIndentLevel(b1, 1)
    IN  writeIndented(b2, Js(0, "tStart", NoChan, ""))

writeStopTestCodeJS(b) ==
    setIndentLevel(writeIndented(b, Js(0, "if_stop", NoChan, "")), 1)

----------------------------------------------------------------------------
(* Clickable-object code *)

ClickedAppendLines(p) ==
    LET l == clickableParamsList(p)
    IN  [i \in 1..Len(l) |-> Py(0, "append", Clicked(l[i]), "")]

writeClickableObjectsCode(p, b) ==
    LET b1 == writeIndentedLines(b,
                 << Py(0, "comment", NoChan, ""),
                    Py(0, "for_obj", NoChan, ""),
                    Py(4, "if_contains", NoChan, ""),
                    Py(8, "gotValidClick=True", NoChan, "") >>)
        b2 == setIndentLevel(b1, 2)
        b3 == writeIndentedLines(b2, ClickedAppendLines(p))
    IN  setIndentLevel(b3, -2)

writeClickableObjectsCodeJS(p, b) ==
    LET b1 == writeIndentedLines(b,
                 << Js(0, "comment", NoChan, ""),
                    Js(0, "for_obj", NoChan, ""),
                    Js(2, "if_contains", NoChan, ""),
                    Js(4, "console.log", NoChan, ""),
                    Js(4, "push", Clicked(NAME), ""),
                    Js(2, "close", NoChan, ""),
                    Js(0, "close", NoChan, "") >>)
        b2 == setIndentLevel(b1, -1)
    IN  writeIndentedLines(b2, << Js(0, "close", NoChan, "") >>)

----------------------------------------------------------------------------
(* Declaration and routine-start phases *)

writeInitCode(p, b) ==
    writeIndentedLines(b, << Py(0, "ctor", NoChan, ""),
                             Py(0, "xy=None", NoChan, "") >>)

writeInitCodeJS(p, b) ==
    writeIndentedLines(b, << Js(0, "ctor", NoChan, ""),
                             Js(2, "ctor_win", NoChan, ""),
                             Js(0, "ctor_close", NoChan, "") >>)

SampleChans == << Chan("x"), Chan("y"), Chan("leftButton"),
                  Chan("midButton"), Chan("rightButton"), Chan("time") >>

StoresSamples(p) == p.saveMouseState \in {"every frame", "on click"}

ClickedChans(p) ==
    LET l == clickableParamsList(p)
    IN  IF HasClickable(p) THEN [i \in 1..Len(l) |-> Clicked(l[i])] ELSE <<>>

\* mutant: the gotValidClick flag is not reset
writeRoutineStartCode_NoReset(p, b) ==
    LET samples == IF StoresSamples(p)
                   THEN [i \in 1..6 |-> Py(0, "newlist", SampleChans[i], "")]
                   ELSE <<>>
        cl == ClickedChans(p)
        clicked == [i \in 1..Len(cl) |-> Py(0, "newlist", cl[i], "")]
    IN  writeIndentedLines(b,
            << Py(0, "comment", NoChan, "") >> \o samples \o clicked)

writeRoutineStartCode(p, b) ==
    LET samples == IF StoresSamples(p)
                   THEN [i \in 1..6 |-> Py(0, "newlist", SampleChans[i], "")]
                   ELSE <<>>
        cl == ClickedChans(p)
        clicked == [i \in 1..Len(cl) |-> Py(0, "newlist", cl[i], "")]
    IN  writeIndentedLines(b,
            << Py(0, "comment", NoChan, "") >> \o samples \o clicked
            \o << Py(0, "gotValidClick=False", NoChan, "") >>)

writeRoutineStartCodeJS(p, b) ==
    LET samples == IF StoresSamples(p)
                   THEN << Js(0, "comment", NoChan, "") >> \o
                        [i \in 1..6 |-> Js(0, "newlist", SampleChans[i], "")]
                   ELSE <<>>
        cl == ClickedChans(p)
        clicked == [i \in 1..Len(cl) |-> Js(0, "newlist", cl[i], "")]
    IN  writeIndentedLines(b,
            << Js(0, "comment", NoChan, "") >> \o samples \o clicked
            \o << Js(0, "gotValidClick=False", NoChan, "") >>)

----------------------------------------------------------------------------
(* Per-frame phase *)

RoutineClockName == "trialClock"

\* self.clockStr after writeFrameCode
FrameClockStr(p, old) ==
    IF p.timeRelativeTo = "experiment" THEN "globalClock"
    ELSE IF p.timeRelativeTo = "routine" THEN RoutineClockName
    ELSE old

\* self.clockStr after writeFrameCodeJS
FrameClockStrJS(p, old) ==
    IF p.timeRelativeTo = "experiment" THEN "globalClock"
    ELSE IF p.timeRelativeTo = "routine" THEN "routineTimer"
    ELSE old

\* mutant: 'final' taken for a state that is stored frame by frame
FrameCodeSkipped_Final(p) ==
    /\ p.saveMouseState \notin {"every frame", "on click", "final"}
    /\ p.forceEndRoutineOnPress = "never"

\* the early return of writeFrameCode / writeFrameCodeJS
FrameCodeSkipped(p) ==
    /\ p.saveMouseState \notin {"every frame", "on click"}
    /\ p.forceEndRoutineOnPress = "never"

HasStop(p) == p.stopVal \notin {"", "NoneObject", "-1", "None"}

\* mutant: click detection only written when clicks are stored
DetectsClicks_SaveOnly(p) == p.saveMouseState = "on click"

DetectsClicks(p) ==
    \/ p.saveMouseState = "on click"
    \/ p.forceEndRoutineOnPress \in {"any click", "valid click"}

writeFrameCode(p, b, clk) ==
    IF FrameCodeSkipped(p) THEN b
    ELSE
    LET b1 == writeIndented(b, Py(0, "comment", NoChan, ""))
        b2 == writeStartTestCode(b1)
        b3 == writeIndentedLines(b2,
                 << Py(0, "status=STARTED", NoChan, ""),
                    IF ParamIsTrue(p.newClicksOnly)
                    THEN Py(0, "prev=getPressed", NoChan, "")
                    ELSE Py(0, "prev=[0,0,0]", NoChan, "") >>)
        b4 == setIndentLevel(b3, -1)
        b5 == IF HasStop(p)
              THEN setIndentLevel(
                       writeIndented(writeStopTestCode(b4),
                                     Py(0, "status=STOPPED", NoChan, "")), -1)
              ELSE b4
        b6 == setIndentLevel(
                  writeIndented(b5, Py(0, "if_started", NoChan, "")), 1)
        b7 == IF DetectsClicks(p)
              THEN LET c1 == writeIndentedLines(b6,
                                << Py(0, "buttons=getPressed", NoChan, ""),
                                   Py(0, "if_buttons!=prev", NoChan, "") >>)
                       c2 == setIndentLevel(c1, 1)
                       c3 == writeIndented(c2, Py(0, "prev=buttons", NoChan, ""))
                       c4 == writeIndentedLines(c3,
                                << Py(0, "if_sum(buttons)>0", NoChan, "") >>)
                   IN  setIndentLevel(c4, 1)
              ELSE IF p.saveMouseState = "every frame"
                   THEN writeIndented(b6, Py(0, "buttons=getPressed", NoChan, ""))
                   ELSE b6
        dedentAtEnd == IF DetectsClicks(p) THEN 3 ELSE 1
        b8 == IF StoresSamples(p)
              THEN writeIndentedLines(b7,
                      << Py(0, "getPos", NoChan, "") >> \o
                      [i \in 1..5 |-> Py(0, "append", SampleChans[i], "")] \o
                      << Py(0, "append", Chan("time"), clk) >>)
              ELSE b7
        b9 == IF HasClickable(p) THEN writeClickableObjectsCode(p, b8) ELSE b8
        b10 == IF p.forceEndRoutineOnPress = "any click"
               THEN writeIndentedLines(b9,
                       << Py(0, "comment", NoChan, ""),
                          Py(0, "continueRoutine=False", NoChan, "") >>)
               ELSE IF p.forceEndRoutineOnPress = "valid click"
               THEN writeIndentedLines(b9,
                       << Py(0, "if_gotValidClick", NoChan, ""),
                          Py(4, "continueRoutine=False", NoChan, "") >>)
               ELSE b9
    IN  setIndentLevel(b10, -dedentAtEnd)

writeFrameCodeJS(p, b, clk) ==
    IF FrameCodeSkipped(p) THEN b
    ELSE
    LET b1 == writeIndented(b, Js(0, "comment", NoChan, ""))
        b2 == writeStartTestCodeJS(b1)
        b3 == writeIndentedLines(b2,
                 << Js(0, "status=STARTED", NoChan, ""),
                    IF ParamIsTrue(p.newClicksOnly)
                    THEN Js(0, "prev=getPressed", NoChan, "")
                    ELSE Js(0, "let_prev=[0,0,0]", NoChan, ""),
                    Js(0, "close", NoChan, "") >>)
        b4 == setIndentLevel(b3, -1)
        b5 == IF HasStop(p)
              THEN setIndentLevel(
                       writeRaw(writeIndented(writeStopTestCodeJS(b4),
                                    Js(0, "status=STOPPED", NoChan, "")),
                                Js(2, "close", NoChan, "")), -1)
              ELSE b4
        b6 == setIndentLevel(
                  writeIndented(b5, Js(0, "if_started", NoChan, "")), 1)
        b7 == IF DetectsClicks(p)
              THEN LET c1 == writeIndentedLines(b6,
                                << Js(0, "buttons=getPressed", NoChan, ""),
                                   Js(0, "if_buttons!=prev", NoChan, "") >>)
                       c2 == setIndentLevel(c1, 1)
                       c3 == writeIndented(c2, Js(0, "if_not_every_equal", NoChan, ""))
                       c4 == setIndentLevel(c3, 1)
                       c5 == writeIndented(c4, Js(0, "prev=buttons", NoChan, ""))
                       c6 == writeIndentedLines(c5,
                                << Js(0, "if_sum(buttons)>0", NoChan, "") >>)
                   IN  setIndentLevel(c6, 1)
              ELSE IF p.saveMouseState = "every frame"
                   THEN writeIndented(b6, Js(0, "buttons=getPressed", NoChan, ""))
                   ELSE b6
        dedentAtEnd == IF DetectsClicks(p) THEN 3 ELSE 1
        b8 == IF StoresSamples(p)
              THEN writeIndentedLines(b7,
                      << Js(0, "getPos", NoChan, "") >> \o
                      [i \in 1..5 |-> Js(0, "push", SampleChans[i], "")] \o
                      << Js(0, "push", Chan("time"), clk) >>)
              ELSE b7
        b9 == IF HasClickable(p) THEN writeClickableObjectsCodeJS(p, b8) ELSE b8
        b10 == writeIndented(b9, Js(0, "close", NoChan, ""))
        b11 == IF p.forceEndRoutineOnPress = "any click"
               THEN writeIndentedLines(b10,
                       << Js(0, "comment", NoChan, ""),
                          Js(0, "let_continueRoutine=false", NoChan, "") >>)
               ELSE IF p.forceEndRoutineOnPress = "valid click"
               THEN writeIndentedLines(b10,
                       << Js(0, "if_gotValidClick", NoChan, ""),
                          Js(2, "let_continueRoutine=false", NoChan, ""),
                          Js(0, "close", NoChan, "") >>)
               ELSE b10
        b12 == setIndentLevel(b11, -dedentAtEnd)
    IN  writeIndentedLines(b12, << Js(0, "close", NoChan, "") >>)

----------------------------------------------------------------------------
(* Routine-end phase *)

expHandler == [name |-> "thisExp", type |-> "ExperimentHandler"]

\* currLoop: the last entry of the loop list, or the experiment handler
CurrLoop(c) == IF Len(c) > 0 THEN c[Len(c)] ELSE expHandler

IsStair(c) == CurrLoop(c).type = "StairHandler"

\* mouseDataProps
MouseDataProps(p) == SampleChans \o ClickedChans(p)

RecordsWholeList(p) ==
    p.saveMouseState = "every frame" \/ p.forceEndRoutineOnPress = "never"

FixedChans == << Chan("x"), Chan("y"), Chan("leftButton"),
                 Chan("midButton"), Chan("rightButton") >>

\* code.format(..., param=paramName) is applied once, after the loop, so
\* every clicked_{param} pair is rendered with the last paramName
FinalClickedLines(p, loopName) ==
    LET l == clickableParamsList(p)
        last == l[Len(l)]
    IN  [i \in 1..(2 * Len(l)) |->
            IF i % 2 = 1 THEN Py(0, "if_len", Clicked(last), "")
                         ELSE Py(4, "addData_first", Clicked(last), loopName)]

FinalClickedLinesJS(p) ==
    LET l == clickableParamsList(p)
        last == l[Len(l)]
    IN  [i \in 1..(2 * Len(l)) |->
            IF i % 2 = 1 THEN Js(0, "if_unparsable", Clicked(last), "")
                         ELSE Js(2, "addData_first", Clicked(last),
                                 "psychoJS.experiment")]

writeRoutineEndCode(p, c, b, clk) ==
    LET store == p.saveMouseState
        loop == CurrLoop(c)
        b1 == writeIndentedLines(b,
                 << IF IsStair(c) THEN Py(0, "comment_stair", NoChan, "")
                    ELSE Py(0, "comment_store", NoChan, loop.name) >>)
        final ==
            LET code == << Py(0, "getPos", NoChan, ""),
                           Py(0, "buttons=getPressed", NoChan, ""),
                           Py(0, "time=getTime", Chan("time"), clk) >>
                f1 == IF HasClickable(p)
                      THEN setIndentLevel(
                               writeClickableObjectsCode(p,
                                   setIndentLevel(
                                       writeIndented(b1,
                                           Py(0, "if_sum(buttons)", NoChan, "")),
                                       1)),
                               -1)
                      ELSE b1
            IN  IF ~IsStair(c) /\ HasClickable(p)
                THEN writeIndentedLines(f1,
                        code \o
                        [i \in 1..5 |-> Py(0, "addData_value", FixedChans[i], loop.name)]
                        \o FinalClickedLines(p, loop.name))
                ELSE f1
        other ==
            LET props == MouseDataProps(p)
            IN  writeIndentedLines(b1,
                    [i \in 1..Len(props) |->
                        IF RecordsWholeList(p)
                        THEN Py(0, "addData", props[i], loop.name)
                        ELSE Py(0, "if_len:addData_first", props[i], loop.name)])
        b2 == IF store = "final" THEN final
              ELSE IF store # "never" THEN other
              ELSE b1
        b3 == IF loop.name = expHandler.name
              THEN writeIndented(b2, Py(0, "nextEntry", NoChan, expHandler.name))
              ELSE b2
    IN  IF store = "nothing" THEN [b |-> b, failed |-> FALSE]
        ELSE IF store = "final" /\ clk = "unset"
             THEN [b |-> b1, failed |-> TRUE]
             ELSE [b |-> b3, failed |-> FALSE]

writeRoutineEndCodeJS(p, c, b, clk) ==
    LET store == p.saveMouseState
        loop == CurrLoop(c)
        b1 == writeIndentedLines(b,
                 << IF IsStair(c) THEN Js(0, "comment_stair", NoChan, "")
                    ELSE Js(0, "comment_store", NoChan, loop.name) >>)
        final ==
            LET code == << Js(0, "getPos", NoChan, ""),
                           Js(0, "buttons=getPressed", NoChan, ""),
                           Js(0, "time=getTime", Chan("time"), clk) >>
                f1 == IF HasClickable(p)
                      THEN setIndentLevel(
                               writeClickableObjectsCode(p,
                                   setIndentLevel(
                                       writeIndented(b1,
                                           Js(0, "if_sum(buttons)", NoChan, "")),
                                       1)),
                               -1)
                      ELSE b1
            IN  IF ~IsStair(c) /\ HasClickable(p)
                THEN writeIndentedLines(f1,
                        code \o
                        [i \in 1..5 |-> Js(0, "addData_value", FixedChans[i],
                                           "psychoJS.experiment")]
                        \o FinalClickedLinesJS(p))
                ELSE f1
        other ==
            LET props == MouseDataProps(p)
                b4 == writeIndentedLines(b1,
                        [i \in 1..Len(props) |->
                            IF RecordsWholeList(p)
                            THEN Js(0, "addData", props[i], "psychoJS.experiment")
                            ELSE Js(0, "if_truthy:addData_first", props[i],
                                    "psychoJS.experiment")])
            IN  writeIndentedLines(b4, << Js(0, "blank", NoChan, "") >>)
        b2 == IF store = "final" THEN final
              ELSE IF store # "never" THEN other
              ELSE b1
    IN  IF store = "nothing" THEN [b |-> b, failed |-> FALSE]
        ELSE IF store = "final" /\ clk = "unset"
             THEN [b |-> b1, failed |-> TRUE]
             ELSE [b |-> b2, failed |-> FALSE]

----------------------------------------------------------------------------
(* The emitted desktop code at run time.  A program is a sequence of      *)
(* emitted lines; blocks are given by the column 4*ind + off, as in       *)
(* Python.  e is the run-time environment (the value of rt).              *)

Col(l) == 4 * l.ind + l.off

\* the first line after position i that is not inside the block opened at i
RECURSIVE BlockEnd(_, _, _)
BlockEnd(ls, i, j) ==
    IF j > Len(ls) \/ Col(ls[j]) <= Col(ls[i]) THEN j
    ELSE BlockEnd(ls, i, j + 1)

Sum(v) == v[1] + v[2] + v[3]

\* <clock>.getTime(): the reading of the named clock in the current frame
GetTime(clk, e) == <<clk, e.t>>

\* obj.contains(mouse): the region of each stimulus
Region(obj) ==
    IF obj = "target" THEN { <<1, 0>>, <<1, 1>> }
    ELSE IF obj = "foil" THEN { <<1, 1>> }
    ELSE {}

\* stopType 'duration (s)' with stopVal 2
StopFrame(p) == p.startVal + 2

Unset == <<>>

Fail(e) == [e EXCEPT !.error = TRUE]

\* mutant: the guarded block also runs once the element has stopped
Cond_NotStopTested(l, e, p) ==
    CASE l.op = "if_start" -> e.t >= p.startVal /\ e.status = "NOT_STARTED"
      [] l.op = "if_stop" -> e.status = "STARTED" /\ e.t >= StopFrame(p)
      [] l.op = "if_started" -> e.status # "NOT_STARTED"
      [] l.op = "if_buttons!=prev" -> e.buttons # e.prev
      [] l.op = "if_sum(buttons)>0" -> Sum(e.buttons) > 0
      [] l.op = "if_sum(buttons)" -> Sum(e.buttons) > 0
      [] l.op = "if_contains" -> e.mouse.pos \in Region(e.obj)
      [] l.op = "if_gotValidClick" -> e.gotValidClick
      [] l.op = "if_len" -> Len(e.data[l.chan]) > 0
      [] OTHER -> FALSE

\* mutant: the pressed buttons are not compared with the baseline
Cond_NoChangeTest(l, e, p) ==
    CASE l.op = "if_start" -> e.t >= p.startVal /\ e.status = "NOT_STARTED"
      [] l.op = "if_stop" -> e.status = "STARTED" /\ e.t >= StopFrame(p)
      [] l.op = "if_started" -> e.status = "STARTED"
      [] l.op = "if_buttons!=prev" -> TRUE
      [] l.op = "if_sum(buttons)>0" -> Sum(e.buttons) > 0
      [] l.op = "if_sum(buttons)" -> Sum(e.buttons) > 0
      [] l.op = "if_contains" -> e.mouse.pos \in Region(e.obj)
      [] l.op = "if_gotValidClick" -> e.gotValidClick
      [] l.op = "if_len" -> Len(e.data[l.chan]) > 0
      [] OTHER -> FALSE

Cond(l, e, p) ==
    CASE l.op = "if_start" -> e.t >= p.startVal /\ e.status = "NOT_STARTED"
      [] l.op = "if_stop" -> e.status = "STARTED" /\ e.t >= StopFrame(p)
      [] l.op = "if_started" -> e.status = "STARTED"
      [] l.op = "if_buttons!=prev" -> e.buttons # e.prev
      [] l.op = "if_sum(buttons)>0" -> Sum(e.buttons) > 0
      [] l.op = "if_sum(buttons)" -> Sum(e.buttons) > 0
      [] l.op = "if_contains" -> e.mouse.pos \in Region(e.obj)
      [] l.op = "if_gotValidClick" -> e.gotValidClick
      [] l.op = "if_len" -> Len(e.data[l.chan]) > 0
      [] OTHER -> FALSE

\* names a condition reads that may not be bound yet
CondFails(l, e) ==
    \/ l.op \in {"if_buttons!=prev", "if_sum(buttons)>0", "if_sum(buttons)"}
          /\ e.buttons = Unset
    \/ l.op = "if_buttons!=prev" /\ e.prev = Unset
    \/ l.op = "if_len" /\ l.chan \notin DOMAIN e.data

\* bookkeeping of what the frame did (not part of the program's state)
Note(l, e, holds) ==
    IF l.op = "if_started" /\ holds
    THEN [e EXCEPT !.ev.blockRan = TRUE, !.ev.baseline = e.prev]
    ELSE IF l.op = "if_contains" /\ holds
    THEN [e EXCEPT !.ev.hits = @ + 1, !.hitFound = TRUE]
    ELSE IF l.op = "if_sum(buttons)>0" /\ holds
    THEN [e EXCEPT !.ev.newClick = TRUE]
    ELSE e

Value(l, e) ==
    CASE l.chan.base = "x" -> e.x
      [] l.chan.base = "y" -> e.y
      [] l.chan.base = "leftButton" -> e.buttons[1]
      [] l.chan.base = "midButton" -> e.buttons[2]
      [] l.chan.base = "rightButton" -> e.buttons[3]
      [] l.chan.base = "time" -> GetTime(l.aux, e)
      [] l.chan.base = "clicked" -> <<e.obj, l.chan.attr>>

Stmt(l, e) ==
    CASE l.op = "status=STARTED" -> [e EXCEPT !.status = "STARTED"]
      [] l.op = "status=STOPPED" -> [e EXCEPT !.status = "STOPPED"]
      [] l.op = "prev=getPressed" ->
            [e EXCEPT !.prev = e.mouse.buttons, !.ev.queried = TRUE]
      [] l.op = "prev=[0,0,0]" -> [e EXCEPT !.prev = <<0, 0, 0>>]
      [] l.op = "buttons=getPressed" ->
            [e EXCEPT !.buttons = e.mouse.buttons, !.ev.queried = TRUE]
      [] l.op = "prev=buttons" -> [e EXCEPT !.prev = e.buttons]
      [] l.op = "getPos" ->
            [e EXCEPT !.x = e.mouse.pos[1], !.y = e.mouse.pos[2]]
      [] l.op = "append" ->
            IF l.chan \notin DOMAIN e.data
               \/ (l.chan.base \in {"leftButton", "midButton", "rightButton"}
                   /\ e.buttons = Unset)
            THEN Fail(e)
            ELSE [e EXCEPT !.data[l.chan] = Append(@, Value(l, e)),
                           !.ev.appended = @ \cup {l.chan}]
      [] l.op = "newlist" ->
            [e EXCEPT !.data = [c \in DOMAIN @ \cup {l.chan} |->
                                   IF c = l.chan THEN <<>> ELSE @[c]]]
      [] l.op = "gotValidClick=False" -> [e EXCEPT !.gotValidClick = FALSE]
      [] l.op = "gotValidClick=True" -> [e EXCEPT !.gotValidClick = TRUE]
      [] l.op = "continueRoutine=False" ->
            [e EXCEPT !.continueRoutine = FALSE, !.ev.signalled = TRUE]
      [] l.op = "time=getTime" ->
            [e EXCEPT !.data = [c \in DOMAIN @ \cup {l.chan} |->
                                   IF c = l.chan THEN <<GetTime(l.aux, e)>>
                                   ELSE @[c]]]
      [] l.op = "addData_value" ->
            IF l.chan.base \in {"leftButton", "midButton", "rightButton"}
               /\ e.buttons = Unset
            THEN Fail(e)
            ELSE [e EXCEPT !.records = Append(@,
                     [loop |-> l.aux, chan |-> l.chan, how |-> "value",
                      val |-> <<Value(l, e)>>])]
      [] l.op = "addData" ->
            IF l.chan \notin DOMAIN e.data THEN Fail(e)
            ELSE [e EXCEPT !.records = Append(@,
                     [loop |-> l.aux, chan |-> l.chan, how |-> "all",
                      val |-> e.data[l.chan]])]
      [] l.op \in {"addData_first", "if_len:addData_first"} ->
            IF l.chan \notin DOMAIN e.data THEN Fail(e)
            ELSE IF Len(e.data[l.chan]) = 0
            THEN (IF l.op = "addData_first" THEN Fail(e) ELSE e)
            ELSE [e EXCEPT !.records = Append(@,
                     [loop |-> l.aux, chan |-> l.chan, how |-> "first",
                      val |-> <<e.data[l.chan][1]>>])]
      [] l.op = "nextEntry" -> [e EXCEPT !.entries = @ + 1]
      [] OTHER -> e

IsIf(l) == l.op \in {"if_start", "if_stop", "if_started", "if_buttons!=prev",
                     "if_sum(buttons)>0", "if_sum(buttons)", "if_contains",
                     "if_gotValidClick", "if_len"}

RECURSIVE Exec(_, _, _, _)
RECURSIVE ExecFor(_, _, _, _)

\* run lines i..Len(ls) of ls
Exec(ls, i, e, p) ==
    IF i > Len(ls) \/ e.error THEN e
    ELSE LET l == ls[i]
             next == BlockEnd(ls, i, i + 1)
         IN  IF IsIf(l)
             THEN IF CondFails(l, e) THEN Fail(e)
                  ELSE IF Cond(l, e, p)
                       THEN The({ Exec(ls, i + 1, e2, p) :
                                     e2 \in {Note(l, e, TRUE)} })
                       ELSE Exec(ls, next, e, p)
             ELSE IF l.op = "for_obj"
             THEN The({ Exec(ls, n, e2, p) :
                           n \in {next},
                           e2 \in {ExecFor(SubSeq(ls, i + 1, next - 1),
                                           [e EXCEPT !.ev.hitTested = TRUE],
                                           p.clickable, p)} })
             ELSE The({ Exec(ls, i + 1, e2, p) : e2 \in {Stmt(l, e)} })

\* mutant: the loop is left at the first stimulus that contains the pointer
ExecFor_Break(body, e, objs, p) ==
    IF objs = <<>> \/ e.error \/ e.ev.hits > 0 THEN e
    ELSE The({ ExecFor(bd, e2, os, p) :
                  bd \in {body},
                  e2 \in {Exec(body, 1, [e EXCEPT !.obj = Head(objs)], p)},
                  os \in {Tail(objs)} })

\* for obj in [clickable]: body
ExecFor(body, e, objs, p) ==
    IF objs = <<>> \/ e.error THEN e
    ELSE The({ ExecFor(bd, e2, os, p) :
                  bd \in {body},
                  e2 \in {Exec(body, 1, [e EXCEPT !.obj = Head(objs)], p)},
                  os \in {Tail(objs)} })

Run(ls, e, p) == The({ Exec(lv, 1, ev, p) : lv \in {ls}, ev \in {e} })

EmptyBuf == [lines |-> <<>>, indentLevel |-> 0]

\* the desktop script of the routine, as compiled by the host
StartProg(p) == writeRoutineStartCode(p, EmptyBuf).lines
FrameProg(p) == writeFrameCode(p, EmptyBuf, FrameClockStr(p, "unset")).lines
EndProg(p, c) ==
    writeRoutineEndCode(p, c, EmptyBuf, FrameClockStr(p, "unset")).b.lines

----------------------------------------------------------------------------
(* Inputs *)

SaveVals == {"final", "on click", "every frame", "never"}
ForceEndVals == {"never", "any click", "valid click"}
TimeVals == {"experiment", "routine"}
ClickableVals == { <<>>, <<"target">> }
SaveParamsVals == { <<>>,
                    <<"n", "a", "m", "e", ",">>,
                    <<"n", "a", "m", "e", ",", " ", "t">> }
StopVals == {"None", "2"}

trials == [name |-> "trials", type |-> "TrialHandler"]
stairs == [name |-> "stairs", type |-> "StairHandler"]
LoopLists == { <<>>, <<trials>>, <<stairs>> }

ParameterSets ==
    [saveMouseState : SaveVals,
     forceEndRoutineOnPress : ForceEndVals,
     timeRelativeTo : TimeVals,
     newClicksOnly : BOOLEAN,
     clickable : ClickableVals,
     saveParamsClickable : SaveParamsVals,
     startVal : {0},
     stopVal : StopVals]

RtIdle == [phase |-> "idle"]
NoCall == [op |-> "none", target |-> "none", preLen |-> 0, preIndent |-> 0]

Init ==
    /\ params \in ParameterSets
    /\ ctx \in LoopLists
    /\ buff = <<>>
    /\ indentLevel = 0
    /\ clockStr = "unset"
    /\ failed = FALSE
    /\ lastCall = NoCall
    /\ nCalls = 0
    /\ rt = RtIdle

----------------------------------------------------------------------------
(* Emitter calls made by the host *)

Buf == [lines |-> buff, indentLevel |-> indentLevel]

CanCall == ~failed /\ nCalls < MaxCalls

Called(op, target, b, clk, f) ==
    /\ buff' = b.lines
    /\ indentLevel' = b.indentLevel
    /\ clockStr' = clk
    /\ failed' = f
    /\ lastCall' = [op |-> op, target |-> target, preLen |-> Len(buff),
                    preIndent |-> indentLevel]
    /\ nCalls' = nCalls + 1
    /\ UNCHANGED <<params, ctx, rt>>

WriteInitCode ==
    /\ CanCall
    /\ Called("init", "py", writeInitCode(params, Buf), clockStr, FALSE)

WriteInitCodeJS ==
    /\ CanCall
    /\ Called("init", "js", writeInitCodeJS(params, Buf), clockStr, FALSE)

WriteRoutineStartCode ==
    /\ CanCall
    /\ Called("start", "py", writeRoutineStartCode(params, Buf), clockStr, FALSE)

WriteRoutineStartCodeJS ==
    /\ CanCall
    /\ Called("start", "js", writeRoutineStartCodeJS(params, Buf), clockStr, FALSE)

WriteFrameCode ==
    /\ CanCall
    /\ LET clk == FrameClockStr(params, clockStr)
       IN  Called("frame", "py", writeFrameCode(params, Buf, clk), clk, FALSE)

WriteFrameCodeJS ==
    /\ CanCall
    /\ LET clk == FrameClockStrJS(params, clockStr)
       IN  Called("frame", "js", writeFrameCodeJS(params, Buf, clk), clk, FALSE)

WriteRoutineEndCode ==
    /\ CanCall
    /\ LET r == writeRoutineEndCode(params, ctx, Buf, clockStr)
       IN  Called("end", "py", r.b, clockStr, r.failed)

WriteRoutineEndCodeJS ==
    /\ CanCall
    /\ LET r == writeRoutineEndCodeJS(params, ctx, Buf, clockStr)
       IN  Called("end", "js", r.b, clockStr, r.failed)

Next ==
    \/ WriteInitCode
    \/ WriteInitCodeJS
    \/ WriteRoutineStartCode
    \/ WriteRoutineStartCodeJS
    \/ WriteFrameCode
    \/ WriteFrameCodeJS
    \/ WriteRoutineEndCode
    \/ WriteRoutineEndCodeJS

Spec == Init /\ [][Next]_vars

\* the lines written by the last call
LastOut == SubSeq(buff, lastCall.preLen + 1, Len(buff))

----------------------------------------------------------------------------
(* One repetition of the routine run by the host: routine start, frames   *)
(* while continueRoutine holds, routine end.                              *)

ButtonVecs == { <<0, 0, 0>>, <<1, 0, 0>>, <<0, 1, 1>> }
Positions == { <<0, 0>>, <<1, 0>>, <<1, 1>> }
MouseInputs == [buttons : ButtonVecs, pos : Positions]

RunParameterSets ==
    [saveMouseState : SaveVals,
     forceEndRoutineOnPress : ForceEndVals,
     timeRelativeTo : {"routine"},
     newClicksOnly : BOOLEAN,
     clickable : { <<>>, <<"target", "foil">> },
     saveParamsClickable : { <<"n", "a", "m", "e", ",", " ", "t">> },
     startVal : {0, 1},
     stopVal : StopVals]

EvNone == [blockRan |-> FALSE, queried |-> FALSE, newClick |-> FALSE,
           hitTested |-> FALSE, hits |-> 0, signalled |-> FALSE,
           appended |-> {}, baseline |-> Unset]

RtFresh(phase, stale) ==
    [phase |-> phase, t |-> 0, status |-> "NOT_STARTED",
     prev |-> Unset, buttons |-> Unset, x |-> -1, y |-> -1,
     mouse |-> [buttons |-> <<0, 0, 0>>, pos |-> <<0, 0>>],
     obj |-> "", data |-> <<>>, gotValidClick |-> stale,
     continueRoutine |-> TRUE, records |-> <<>>, entries |-> 0,
     error |-> FALSE, hitFound |-> FALSE, ev |-> EvNone,
     \* history: the state the last frame started from, the button vector
     \* of the activation frame and whether it was held ever since
     before |-> [status |-> "NOT_STARTED", got |-> stale, data |-> <<>>],
     act |-> Unset, held |-> FALSE]

\* the buffer after the host compiled declare, routine-start and per-frame
CompiledToFrame(p) ==
    writeFrameCode(p,
        writeRoutineStartCode(p, writeInitCode(p, EmptyBuf)),
        FrameClockStr(p, "unset"))

\* ... and routine-end
CompiledScript(p, c) ==
    writeRoutineEndCode(p, c, CompiledToFrame(p), FrameClockStr(p, "unset")).b

InitRun ==
    /\ params \in RunParameterSets
    /\ ctx = <<trials>>
    /\ buff = CompiledScript(params, ctx).lines
    /\ indentLevel = CompiledScript(params, ctx).indentLevel
    /\ clockStr = FrameClockStr(params, "unset")
    /\ lastCall = [op |-> "end", target |-> "py",
                   preLen |-> Len(CompiledToFrame(params).lines),
                   preIndent |-> CompiledToFrame(params).indentLevel]
    /\ failed = FALSE
    /\ nCalls = 4
    /\ rt = RtFresh("compiled", FALSE)

\* history: what a frame starts from
Before(e) == [status |-> e.status, got |-> e.gotValidClick, data |-> e.data]

\* history: the frame from e to r is the activation frame
Activated(e, r) == e.status = "NOT_STARTED" /\ r.status = "STARTED"

RunRoutineStart ==
    /\ rt.phase = "compiled"
    \* gotValidClick holds whatever an earlier routine left in it
    /\ \E stale \in BOOLEAN :
          rt' = The({ [r EXCEPT !.before = Before(r)] :
                      r \in {Run(StartProg(params),
                                 RtFresh("running", stale), params)} })
    /\ UNCHANGED <<params, ctx, buff, indentLevel, clockStr, failed,
                   lastCall, nCalls>>

RunFrame ==
    /\ rt.phase = "running"
    /\ rt.continueRoutine
    /\ ~rt.error
    /\ rt.t < MaxFrames
    /\ \E m \in MouseInputs :
          rt' = The({ [r EXCEPT
                          !.t = @ + 1,
                          !.act = IF Activated(rt, r) THEN m.buttons ELSE @,
                          !.held = IF Activated(rt, r) THEN TRUE
                                   ELSE @ /\ m.buttons = rt.act] :
                      r \in {Run(FrameProg(params),
                                 [rt EXCEPT !.mouse = m, !.ev = EvNone,
                                            !.before = Before(rt)],
                                 params)} })
    /\ UNCHANGED <<params, ctx, buff, indentLevel, clockStr, failed,
                   lastCall, nCalls>>

RunRoutineEnd ==
    /\ rt.phase = "running"
    /\ ~rt.error
    /\ rt.t >= 1
    /\ \E m \in (IF params.saveMouseState = "final" THEN MouseInputs
                 ELSE {rt.mouse}) :
          rt' = Run(EndProg(params, ctx),
                    [rt EXCEPT !.mouse = m, !.ev = EvNone,
                               !.phase = "ended"], params)
    /\ UNCHANGED <<params, ctx, buff, indentLevel, clockStr, failed,
                   lastCall, nCalls>>

NextRun == RunRoutineStart \/ RunFrame \/ RunRoutineEnd

RunSpec == InitRun /\ [][NextRun]_vars

----------------------------------------------------------------------------
(* Properties of the emitter *)

OpsOf(ls) == {ls[i].op : i \in 1..Len(ls)}
CountOp(ls, op, chan) ==
    Cardinality({i \in 1..Len(ls) : ls[i].op = op /\ ls[i].chan = chan})
LinesOf(lang, ops) ==
    {i \in 1..Len(buff) : buff[i].lang = lang /\ buff[i].op \in ops}

\* C1: with saveMouseState == 'never' the routine-end emission (desktop and
\* browser, any loop context) appends nothing to the buffer.
C1_RoutineEndNeverIsEmpty ==
    (lastCall.op = "end" /\ params.saveMouseState = "never")
        => Len(buff) = lastCall.preLen

\* C2: with saveMouseState in {'final', 'never'} and forceEndRoutineOnPress
\* == 'never' the per-frame emission (desktop and browser) appends nothing
\* and leaves the indentation cursor where it was.
C2_FrameEmissionEmpty ==
    (/\ lastCall.op = "frame"
     /\ params.saveMouseState \in {"final", "never"}
     /\ params.forceEndRoutineOnPress = "never")
        => (LastOut = <<>> /\ indentLevel = lastCall.preIndent)

C2_Witness ==
    /\ lastCall.op = "frame"
    /\ lastCall.target = "js"
    /\ lastCall.preLen > 0
    /\ params.saveMouseState = "final"
    /\ params.forceEndRoutineOnPress = "never"
    /\ params.clickable # <<>>
    /\ LastOut = <<>>

\* C3: the desktop and the browser per-frame code record the same channels
\* (every channel the desktop code appends to is pushed to by the browser
\* code and vice versa) and both set gotValidClick when a target is hit.
C3_SameRecording ==
    (LinesOf("py", {"if_started"}) # {} /\ LinesOf("js", {"if_started"}) # {})
        => /\ {buff[i].chan : i \in LinesOf("py", {"append"})}
                = {buff[i].chan : i \in LinesOf("js", {"push"})}
           /\ (LinesOf("py", {"gotValidClick=True"}) # {})
                <=> (LinesOf("js", {"gotValidClick=True"}) # {})

\* C4: after every complete phase emission the indentation cursor is back at
\* the level it had before the call.
C4_CursorRestored ==
    (lastCall.op # "none" /\ ~failed) => indentLevel = lastCall.preIndent

\* C5: with saveMouseState == 'final' and a loop that is not a staircase the
\* routine-end emission holds one terminal position / buttons / time sample
\* and one data-record call per fixed channel, clickable empty or not.
C5_FinalRecordsFixedChannels ==
    (/\ lastCall.op = "end"
     /\ ~failed
     /\ params.saveMouseState = "final"
     /\ ~IsStair(ctx))
        => /\ CountOp(LastOut, "getPos", NoChan) = 1
           /\ CountOp(LastOut, "buttons=getPressed", NoChan) = 1
           /\ CountOp(LastOut, "time=getTime", Chan("time")) = 1
           /\ \A i \in 1..5 :
                 CountOp(LastOut, "addData_value", FixedChans[i]) = 1

\* C6: inside a staircase loop the routine-end emission is the explanatory
\* comment only; no data-record call is emitted for 'final', 'on click' or
\* 'every frame'.
C6_StaircaseCommentOnly ==
    (/\ lastCall.op = "end"
     /\ ~failed
     /\ IsStair(ctx)
     /\ params.saveMouseState \in {"final", "on click", "every frame"})
        => /\ Len(LastOut) = 1
           /\ LastOut[1].op = "comment_stair"
           /\ OpsOf(LastOut) \cap {"addData", "addData_value", "addData_first",
                                   "if_len:addData_first",
                                   "if_truthy:addData_first"} = {}

\* the routine-end text written when the per-frame emission of the same
\* target has been called before
EndTextAfterOwnFrame ==
    LET b0 == [lines |-> <<>>, indentLevel |-> lastCall.preIndent]
    IN  IF lastCall.target = "py"
        THEN writeRoutineEndCode(params, ctx, b0,
                                 FrameClockStr(params, "unset")).b.lines
        ELSE writeRoutineEndCodeJS(params, ctx, b0,
                                   FrameClockStrJS(params, "unset")).b.lines

\* C7: the routine-end emission succeeds and writes the same text whatever
\* calls preceded it (none, the desktop or the browser per-frame emission).
C7_EndIndependentOfHistory ==
    lastCall.op = "end" => (~failed /\ LastOut = EndTextAfterOwnFrame)

\* the data-record lines of the last emission
RecordLines ==
    SelectSeq(LastOut, LAMBDA l : l.chan # NoChan)

\* C8: for 'on click' / 'every frame' the routine-end emission treats every
\* channel alike: the whole sequence when saveMouseState == 'every frame' or
\* forceEndRoutineOnPress == 'never', otherwise the first element guarded by
\* a non-emptiness test.
C8_OnePolicyPerChannel ==
    (/\ lastCall.op = "end"
     /\ params.saveMouseState \in {"on click", "every frame"})
        => /\ [i \in 1..Len(RecordLines) |-> RecordLines[i].chan]
                 = SampleChans \o
                   (IF params.clickable # <<>>
                    THEN [i \in 1..Len(clickableParamsList(params)) |->
                             Clicked(clickableParamsList(params)[i])]
                    ELSE <<>>)
           /\ \A i \in 1..Len(RecordLines) :
                 RecordLines[i].op =
                    IF \/ params.saveMouseState = "every frame"
                       \/ params.forceEndRoutineOnPress = "never"
                    THEN "addData" ELSE "if_len:addData_first"

----------------------------------------------------------------------------
(* Properties of the emitted desktop code at run time.  rt.ev describes   *)
(* the frame that was run last; rt.mouse is the input of that frame.      *)

AfterFrame == rt.phase = "running" /\ rt.t >= 1

\* C9 (as stated): with 'any click' every frame in which the STARTED block
\* runs signals routine termination.
C9_AnyClickEveryStartedFrame ==
    (AfterFrame /\ params.forceEndRoutineOnPress = "any click"
        /\ rt.ev.blockRan)
        => rt.ev.signalled

\* C9 (amended): with 'any click' a frame signals routine termination
\* exactly when the STARTED block runs and the pressed-button vector differs
\* from the baseline and has a button down.
C9_AnyClickOnNewClick ==
    (AfterFrame /\ params.forceEndRoutineOnPress = "any click")
        => (rt.ev.signalled <=>
               /\ rt.ev.blockRan
               /\ rt.mouse.buttons # rt.ev.baseline
               /\ Sum(rt.mouse.buttons) > 0)

C9_Witness ==
    /\ AfterFrame
    /\ params.forceEndRoutineOnPress = "any click"
    /\ rt.t >= 2
    /\ rt.ev.blockRan
    /\ rt.ev.baseline # <<0, 0, 0>>
    /\ rt.ev.signalled

\* C10: with 'valid click' termination is signalled only when gotValidClick
\* is true, gotValidClick is true only if a hit-test of this repetition found
\* the pointer inside a clickable target, and with no clickable target
\* termination is never signalled.
C10_ValidClickOnly ==
    (rt.phase \in {"running", "ended"}
        /\ params.forceEndRoutineOnPress = "valid click")
        => /\ rt.ev.signalled => rt.gotValidClick
           /\ rt.gotValidClick => rt.hitFound
           /\ ~rt.continueRoutine => rt.hitFound
           /\ params.clickable = <<>> => rt.continueRoutine

C10_Witness ==
    /\ rt.phase = "running"
    /\ params.forceEndRoutineOnPress = "valid click"
    /\ rt.ev.signalled
    /\ rt.gotValidClick
    /\ rt.t >= 2

\* C11 (as stated): with 'on click' and termination on click ('any click'
\* or 'valid click') every accumulated sequence holds at most one element
\* when the routine-end code has run.
C11_AtMostOneSample ==
    (/\ rt.phase = "ended"
     /\ params.saveMouseState = "on click"
     /\ params.forceEndRoutineOnPress \in {"any click", "valid click"})
        => \A c \in DOMAIN rt.data : Len(rt.data[c]) <= 1

\* a frame queried the buttons, appended a sample, ran the hit-test or
\* signalled termination
FrameActed ==
    \/ rt.ev.queried
    \/ rt.ev.appended # {}
    \/ rt.ev.hitTested
    \/ rt.ev.signalled

ActivationFrame ==
    AfterFrame /\ rt.before.status = "NOT_STARTED" /\ rt.status = "STARTED"

\* a button was down at activation and the same vector was pressed in every
\* frame since
HeldSinceActivation ==
    AfterFrame /\ rt.status = "STARTED" /\ rt.held /\ Sum(rt.act) > 0

\* C13 (as stated): with newClicksOnly a button down at activation and held
\* gives no sample, no hit-test and no termination; without newClicksOnly
\* the baseline is all-released.
C13_HeldButtonIsNoClick ==
    /\ (params.newClicksOnly /\ HeldSinceActivation)
          => (rt.ev.appended = {} /\ ~rt.ev.hitTested /\ ~rt.ev.signalled)
    /\ (~params.newClicksOnly /\ ActivationFrame)
          => rt.ev.baseline = <<0, 0, 0>>

\* C13 (amended): when the per-frame code detects clicks (saveMouseState ==
\* 'on click' or forceEndRoutineOnPress in {'any click', 'valid click'}):
\* with newClicksOnly the baseline is the vector pressed in the activation
\* frame, a button held since activation gives no new click (no sample, no
\* hit-test, no termination) and a vector that differs from the baseline and
\* has a button down gives one; without newClicksOnly the baseline is
\* all-released and a button down at activation is a new click in the
\* activation frame.
C13_BaselineWithClickDetection ==
    (/\ AfterFrame
     /\ \/ params.saveMouseState = "on click"
        \/ params.forceEndRoutineOnPress \in {"any click", "valid click"})
        => /\ ActivationFrame
                => rt.ev.baseline = IF params.newClicksOnly
                                    THEN rt.mouse.buttons ELSE <<0, 0, 0>>
           /\ (params.newClicksOnly /\ HeldSinceActivation)
                => /\ ~rt.ev.newClick
                   /\ rt.ev.appended = {}
                   /\ ~rt.ev.hitTested
                   /\ ~rt.ev.signalled
           /\ (/\ rt.ev.blockRan
               /\ rt.mouse.buttons # rt.ev.baseline
               /\ Sum(rt.mouse.buttons) > 0)
                => rt.ev.newClick
           /\ (/\ ~params.newClicksOnly
               /\ ActivationFrame
               /\ Sum(rt.mouse.buttons) > 0)
                => rt.ev.newClick

C13_Witness ==
    /\ params.newClicksOnly
    /\ params.saveMouseState = "on click"
    /\ params.clickable # <<>>
    /\ HeldSinceActivation
    /\ rt.before.status = "STARTED"
    /\ rt.mouse.pos = <<1, 1>>
    /\ rt.ev.blockRan
    /\ ~rt.ev.newClick

\* the stimuli of the clickable list that contain the pointer, in list order
StimuliHit ==
    SelectSeq(params.clickable, LAMBDA o : rt.mouse.pos \in Region(o))

\* C14: in a frame where the hit-test runs with the pointer inside k
\* clickable stimuli, every clicked_<attribute> sequence grows by exactly k
\* entries, one per stimulus hit in list order, and gotValidClick is true
\* afterwards iff k > 0 or it was true before.
C14_HitTestVisitsAll ==
    (AfterFrame /\ rt.ev.hitTested /\ ~rt.error)
        => /\ \A i \in 1..Len(clickableParamsList(params)) :
                 LET a == clickableParamsList(params)[i]
                 IN  rt.data[Clicked(a)] =
                        rt.before.data[Clicked(a)] \o
                        [j \in 1..Len(StimuliHit) |-> <<StimuliHit[j], a>>]
           /\ rt.gotValidClick <=> (Len(StimuliHit) > 0 \/ rt.before.got)
           /\ rt.ev.hits = Len(StimuliHit)

C14_Witness ==
    /\ AfterFrame
    /\ rt.ev.hitTested
    /\ ~rt.error
    /\ Len(StimuliHit) = 2
    /\ Len(clickableParamsList(params)) = 2
    /\ Len(rt.data[Clicked(NAME)]) = 3

\* C15 (as stated): with 'every frame' each frame that leaves the element
\* STARTED appends exactly one sample to every per-sample sequence, for every
\* value of forceEndRoutineOnPress.
C15_OneSamplePerStartedFrame ==
    (/\ AfterFrame
     /\ ~rt.error
     /\ params.saveMouseState = "every frame"
     /\ rt.status = "STARTED")
        => \A i \in 1..Len(SampleChans) :
              Len(rt.data[SampleChans[i]])
                 = Len(rt.before.data[SampleChans[i]]) + 1

====
